---- MODULE Spec2Model ----
(***************************************************************************)
(* fuzzydiff: parse_diff (the hunk extractor) and main (the pipeline       *)
(* read - parse - select - parse selection - open editor).                 *)
(*                                                                         *)
(* Text is modelled character by character: a Python str is a sequence of  *)
(* one-character strings, so that matching, stripping, rendering and       *)
(* splitting are computed as the code computes them.                       *)
(***************************************************************************)
EXTENDS Integers, Sequences, FiniteSets, TLC

VARIABLES
    pc,               \* position of main: start, parsing, parsed, selecting, selected, navigate, exit
    lines,            \* the raw lines parse_diff has iterated over so far
    entries,          \* parse_diff: entries (rendered selection lines)
    hunks,            \* the values interpolated into each entry at flush time
    blobs,            \* files written under temp_dir: path -> content
    current_file,     \* parse_diff: current_file (None or a str)
    hunk_block,       \* parse_diff: hunk_block
    hunk_start_line,  \* parse_diff: hunk_start_line (None or a str of digits)
    hunk_header,      \* parse_diff: hunk_header (None or a str)
    hunk_id,          \* parse_diff: hunk_id
    block_src,        \* for each line of hunk_block, its index in the input
    header_src,       \* index in the input of the line held in hunk_header
    selected,         \* main: selected (None or a str)
    nav,              \* calls of open_in_editor made so far: <<filepath, line_number>>
    exit_code,        \* None until sys.exit / return of main
    released,         \* TRUE once the TemporaryDirectory has been cleaned up
    input_ok,         \* None, then whether the input could be read (open did not raise)
    fzf_found,        \* None, then whether Popen started fzf (no FileNotFoundError)
    report            \* None, or the message main printed before it ended

vars == <<pc, lines, entries, hunks, blobs, current_file, hunk_block,
          hunk_start_line, hunk_header, hunk_id, block_src, header_src,
          selected, nav, exit_code, released, input_ok, fzf_found, report>>

parserVars == <<lines, entries, hunks, blobs, current_file, hunk_block,
                hunk_start_line, hunk_header, hunk_id, block_src, header_src>>

(***************************************************************************)
(* Bounds                                                                  *)
(***************************************************************************)
MaxLines == 4

(***************************************************************************)
(* Python values                                                           *)
(***************************************************************************)
\* Python None is <<>>, a value v that is not None is <<v>>.
None == <<>>

Some(v) == <<v>>

\* Python truthiness of an optional str: neither None nor "".
Truthy(o) == o # None /\ o[1] # <<>>

NL == "\n"

TAB == "\t"

\* The characters str.strip, str.rstrip and the regex class \s treat as white space.
Whitespace == {" ", "\t", "\n", "\r", "\f"}

Digits == <<"0", "1", "2", "3", "4", "5", "6", "7", "8", "9">>

IsDigit(c) == \E d \in 1..Len(Digits) : Digits[d] = c

DigitVal(c) == (CHOOSE d \in 1..Len(Digits) : Digits[d] = c) - 1

\* str.startswith
StartsWith(s, p) == Len(s) >= Len(p) /\ SubSeq(s, 1, Len(p)) = p

\* s[i:] with a 1-based i
From(s, i) == SubSeq(s, i, Len(s))

\* line.rstrip("\n")
RECURSIVE RStripNL(_)
RStripNL(s) ==
    IF s # <<>> /\ s[Len(s)] = NL THEN RStripNL(SubSeq(s, 1, Len(s) - 1)) ELSE s

\* first index >= i of s holding a character outside cs (Len(s)+1 when none)
RECURSIVE SkipWhile(_, _, _)
SkipWhile(s, i, cs) ==
    IF i <= Len(s) /\ s[i] \in cs THEN SkipWhile(s, i + 1, cs) ELSE i

DigitSet == {Digits[d] : d \in 1..Len(Digits)}

\* str.strip()
RECURSIVE RStripWS(_)
RStripWS(s) ==
    IF s # <<>> /\ s[Len(s)] \in Whitespace THEN RStripWS(SubSeq(s, 1, Len(s) - 1)) ELSE s

Strip(s) == RStripWS(From(s, SkipWhile(s, 1, Whitespace)))

\* the element of a one-element set; {f(v) : v \in {e}} binds v to the value of
\* e, as a Python assignment does
Only(S) == CHOOSE x \in S : TRUE

\* str.split(sep) for a one-character sep: the list of fields
RECURSIVE Split(_, _)
Split(s, sep) ==
    LET i == SkipWhile(s, 1, {c \in {s[k] : k \in 1..Len(s)} : c # sep})
    IN  IF i > Len(s) THEN <<s>>
        ELSE <<SubSeq(s, 1, i - 1)>> \o Only({Split(rest, sep) : rest \in {From(s, i + 1)}})

\* sep.join(parts)
RECURSIVE Join(_, _)
Join(parts, sep) ==
    IF parts = <<>> THEN <<>>
    ELSE IF Len(parts) = 1 THEN parts[1]
    ELSE parts[1] \o <<sep>> \o Join(Tail(parts), sep)

\* str(n) for n >= 0
RECURSIVE IntToStr(_)
IntToStr(n) ==
    IF n < 10 THEN <<Digits[n + 1]>> ELSE IntToStr(n \div 10) \o <<Digits[(n % 10) + 1]>>

\* value of a non-empty str of digits
RECURSIVE DigitsToInt(_)
DigitsToInt(s) ==
    IF Len(s) = 1 THEN DigitVal(s[1])
    ELSE 10 * DigitsToInt(SubSeq(s, 1, Len(s) - 1)) + DigitVal(s[Len(s)])

\* int(s): None when it raises ValueError, else the value. White space around the
\* literal and one leading sign are accepted.
ParseInt(s) ==
    LET t == Strip(s)
        signed == t # <<>> /\ t[1] \in {"+", "-"}
        d == IF signed THEN Tail(t) ELSE t
    IN  IF d = <<>> \/ \E k \in 1..Len(d) : ~IsDigit(d[k]) THEN None
        ELSE Some(IF signed /\ t[1] = "-" THEN 0 - DigitsToInt(d) ELSE DigitsToInt(d))

(***************************************************************************)
(* The regular expressions of parse_diff. The character classes that meet  *)
(* in each pattern are disjoint, so the greedy left-to-right scan below    *)
(* finds a match exactly when re.match does, with the same group.          *)
(***************************************************************************)
\* s[i], or "" past the end
At(s, i) == IF i >= 1 /\ i <= Len(s) THEN s[i] ELSE ""

\* the text `.*` matches from the start of s: up to the first newline
UpToNL(s) == SubSeq(s, 1, SkipWhile(s, 1, {c \in {s[k] : k \in 1..Len(s)} : c # NL}) - 1)

\* pattern_git_file = ^\+\+\+\s+(.*) : None, or group 1
pattern_git_file(line) ==
    IF StartsWith(line, <<"+", "+", "+">>) /\ At(line, 4) \in Whitespace
    THEN Some(UpToNL(From(line, SkipWhile(line, 4, Whitespace))))
    ELSE None

\* pattern_index_file = ^Index:\s+(.*) : None, or group 1
pattern_index_file(line) ==
    IF StartsWith(line, <<"I", "n", "d", "e", "x", ":">>) /\ At(line, 7) \in Whitespace
    THEN Some(UpToNL(From(line, SkipWhile(line, 7, Whitespace))))
    ELSE None

\* the pattern captures the old-file start: ^@@\s+-(\d+)
pattern_hunk_OldStart(line) ==
    LET i1 == SkipWhile(line, 3, Whitespace)
        i2 == SkipWhile(line, i1 + 1, DigitSet)
    IN  IF StartsWith(line, <<"@", "@">>) /\ i1 > 3 /\ At(line, i1) = "-" /\ i2 > i1 + 1
        THEN Some(SubSeq(line, i1 + 1, i2 - 1))
        ELSE None

\* pattern_hunk = ^@@\s+-\d+(?:,\d+)?\s+\+(\d+) : None, or group 1
pattern_hunk(line) ==
    LET i1 == SkipWhile(line, 3, Whitespace)          \* after @@\s+
        i2 == SkipWhile(line, i1 + 1, DigitSet)       \* after -\d+
        i3 == IF At(line, i2) = "," /\ IsDigit(At(line, i2 + 1))
              THEN SkipWhile(line, i2 + 1, DigitSet)
              ELSE i2                                 \* after (?:,\d+)?
        i4 == SkipWhile(line, i3, Whitespace)         \* after \s+
        i5 == SkipWhile(line, i4 + 1, DigitSet)       \* after \+(\d+)
    IN  IF /\ StartsWith(line, <<"@", "@">>)
           /\ i1 > 3
           /\ At(line, i1) = "-"
           /\ i2 > i1 + 1
           /\ i4 > i3
           /\ At(line, i4) = "+"
           /\ i5 > i4 + 1
        THEN Some(SubSeq(line, i4 + 1, i5 - 1))
        ELSE None

(***************************************************************************)
(* parse_diff                                                              *)
(***************************************************************************)
\* tempfile.TemporaryDirectory() as temp_dir
temp_dir == <<"/", "t">>

\* os.path.join(temp_dir, f"{hunk_id}.txt")
tmp_filepath(id) == temp_dir \o <<"/">> \o IntToStr(id) \o <<".", "t", "x", "t">>

\* f"{hunk_id}\t{current_file}:{hunk_start_line}\t{hunk_header}\t{tmp_filepath}"
Entry(id, file, start, header, path) ==
    IntToStr(id) \o <<TAB>> \o file \o <<":">> \o start \o <<TAB>> \o header
        \o <<TAB>> \o path

\* the local state of parse_diff as one value
PState ==
    [entries |-> entries, hunks |-> hunks, blobs |-> blobs,
     current_file |-> current_file, hunk_block |-> hunk_block,
     hunk_start_line |-> hunk_start_line, hunk_header |-> hunk_header,
     hunk_id |-> hunk_id, block_src |-> block_src, header_src |-> header_src]

\* the condition of flush_hunk
FlushCond(st) ==
    /\ st.hunk_block # <<>>
    /\ Truthy(st.current_file)
    /\ st.hunk_start_line # None
    /\ Truthy(st.hunk_header)

\* open(tmp_filepath, "w").write(content): creates or overwrites the file
WriteBlob(bs, path, content) == {b \in bs : b[1] # path} \cup {<<path, content>>}

\* the id is not advanced after a flush
NextId_Stuck(id) == id

\* hunk_id += 1
NextId(id) == id + 1

\* flush_hunk without hunk_block.clear()
flush_hunk_KeepsBlock(st) ==
    IF FlushCond(st)
    THEN LET path == tmp_filepath(st.hunk_id)
         IN  [st EXCEPT
                !.blobs = WriteBlob(st.blobs, path, Join(st.hunk_block, NL)),
                !.entries = Append(st.entries,
                                   Entry(st.hunk_id, st.current_file[1],
                                         st.hunk_start_line[1], st.hunk_header[1], path)),
                !.hunks = Append(st.hunks,
                                 [id |-> st.hunk_id,
                                  file_path |-> st.current_file[1],
                                  start_line |-> st.hunk_start_line[1],
                                  header_text |-> st.hunk_header[1],
                                  content_ref |-> path,
                                  src |-> st.block_src,
                                  header_src |-> st.header_src]),
                !.hunk_header = None,
                !.header_src = 0,
                !.hunk_start_line = None,
                !.hunk_id = NextId(st.hunk_id)]
    ELSE st

\* a successful flush that also forgets the current file
flush_hunk_ClearsFile(st) ==
    IF FlushCond(st)
    THEN LET path == tmp_filepath(st.hunk_id)
         IN  [st EXCEPT
                !.blobs = WriteBlob(st.blobs, path, Join(st.hunk_block, NL)),
                !.entries = Append(st.entries,
                                   Entry(st.hunk_id, st.current_file[1],
                                         st.hunk_start_line[1], st.hunk_header[1], path)),
                !.hunks = Append(st.hunks,
                                 [id |-> st.hunk_id,
                                  file_path |-> st.current_file[1],
                                  start_line |-> st.hunk_start_line[1],
                                  header_text |-> st.hunk_header[1],
                                  content_ref |-> path,
                                  src |-> st.block_src,
                                  header_src |-> st.header_src]),
                !.hunk_block = <<>>,
                !.block_src = <<>>,
                !.hunk_header = None,
                !.header_src = 0,
                !.hunk_start_line = None,
                !.current_file = None,
                !.hunk_id = NextId(st.hunk_id)]
    ELSE st

flush_hunk(st) ==
    IF FlushCond(st)
    THEN LET path == tmp_filepath(st.hunk_id)
         IN  [st EXCEPT
                !.blobs = WriteBlob(st.blobs, path, Join(st.hunk_block, NL)),
                !.entries = Append(st.entries,
                                   Entry(st.hunk_id, st.current_file[1],
                                         st.hunk_start_line[1], st.hunk_header[1], path)),
                !.hunks = Append(st.hunks,
                                 [id |-> st.hunk_id,
                                  file_path |-> st.current_file[1],
                                  start_line |-> st.hunk_start_line[1],
                                  header_text |-> st.hunk_header[1],
                                  content_ref |-> path,
                                  src |-> st.block_src,
                                  header_src |-> st.header_src]),
                !.hunk_block = <<>>,
                !.block_src = <<>>,
                !.hunk_header = None,
                !.header_src = 0,
                !.hunk_start_line = None,
                !.hunk_id = NextId(st.hunk_id)]
    ELSE st

\* Remove any leading "a/" or "b/"
StripPrefix(path) ==
    IF StartsWith(path, <<"a", "/">>) \/ StartsWith(path, <<"b", "/">>)
    THEN From(path, 3)
    ELSE path

\* line.startswith("+++ ") or line.startswith("Index: ")
IsFileHeader(line) ==
    \/ StartsWith(line, <<"+", "+", "+", " ">>)
    \/ StartsWith(line, <<"I", "n", "d", "e", "x", ":", " ">>)

\* a hunk header that does not flush the open hunk first
OpenHunk_NoFlush(st, line, idx, m) ==
    [st EXCEPT !.hunk_start_line = m,
               !.hunk_header = Some(line),
               !.header_src = idx,
               !.hunk_block = Append(st.hunk_block, line),
               !.block_src = Append(st.block_src, idx)]

\* hunk header: flush, then open a new hunk with this line
OpenHunk(st, line, idx, m) ==
    LET f == flush_hunk(st)
    IN  [f EXCEPT !.hunk_start_line = m,
                  !.hunk_header = Some(line),
                  !.header_src = idx,
                  !.hunk_block = Append(f.hunk_block, line),
                  !.block_src = Append(f.block_src, idx)]

\* Append lines if inside a hunk.
AppendLine(st, line, idx) ==
    IF st.hunk_block # <<>>
    THEN [st EXCEPT !.hunk_block = Append(st.hunk_block, line),
                    !.block_src = Append(st.block_src, idx)]
    ELSE st

\* the part of the loop body after the file-header branch
HunkOrOther(st, line, idx) ==
    LET m == pattern_hunk(line)
    IN  IF m # None THEN OpenHunk(st, line, idx, m) ELSE AppendLine(st, line, idx)

\* the file-header branch: flush, then set current_file
FileHeader(st, line, idx) ==
    LET f == flush_hunk(st)
        g == pattern_git_file(line)
        i == pattern_index_file(line)
    IN  IF g # None THEN [f EXCEPT !.current_file = Some(StripPrefix(g[1]))]
        ELSE IF i # None THEN [f EXCEPT !.current_file = i]
        ELSE HunkOrOther(f, line, idx)

\* one iteration of `for line in lines`; idx is the line's index in the input
LoopBody(st, raw, idx) ==
    LET line == RStripNL(raw)
    IN  IF IsFileHeader(line) THEN FileHeader(st, line, idx) ELSE HunkOrOther(st, line, idx)

(***************************************************************************)
(* Inputs                                                                  *)
(***************************************************************************)
LGit == <<"+", "+", "+", " ", "b", "/", "x", NL>>

LGitBare == <<"+", "+", "+", " ", "a", "/", NL>>

LGitTab == <<"+", "+", "+", " ", "q", ":", "7", TAB, "z", NL>>

LIndex == <<"I", "n", "d", "e", "x", ":", " ", "y", NL>>

LHunk == <<"@", "@", " ", "-", "1", " ", "+", "3", " ", "@", "@", NL>>

LHunkZero == <<"@", "@", " ", "-", "1", ",", "3", " ", "+", "0", ",", "0", " ", "@", "@", NL>>

LCtx == <<" ", "c", NL>>

\* a malformed hunk header, and a last line without newline
LBad == <<"@", "@", " ", "-", "1", " ", "@", "@">>

RawLines == {LGit, LGitBare, LGitTab, LIndex, LHunk, LHunkZero, LCtx, LBad}

\* lines fzf can print besides a rendered entry: nothing, and malformed lines
OtherSelections ==
    { <<>>,
      <<"z", NL>>,
      <<"0", TAB, "x", NL>>,
      <<"0", TAB, "x", ":", "y", NL>>,
      <<"0", TAB, "x", ":", "5", NL>> }

(***************************************************************************)
(* main                                                                    *)
(***************************************************************************)
\* the temporary directory is not removed when main ends
Exit_KeepsBlobs(code, msg) ==
    /\ pc' = "exit"
    /\ exit_code' = Some(code)
    /\ report' = msg
    /\ UNCHANGED <<blobs, released>>

\* leaving the `with tempfile.TemporaryDirectory()` block removes every blob
Exit(code, msg) ==
    /\ pc' = "exit"
    /\ exit_code' = Some(code)
    /\ report' = msg
    /\ blobs' = {}
    /\ released' = TRUE

\* the selection is rejected unless it has exactly four fields
ParseSelection_FourFields(sel) ==
    LET parts == Split(sel, TAB)
        fields == Split(parts[2], ":")
        n == ParseInt(Join(Tail(fields), ":"))
    IN  IF Len(parts) # 4 THEN None
        ELSE IF Len(fields) < 2 THEN None
        ELSE IF n = None THEN None
        ELSE Some(<<fields[1], n[1]>>)

\* a line number that is no integer falls back to line 1 instead of raising
ParseSelection_DefaultLine(sel) ==
    LET parts == Split(sel, TAB)
        fields == Split(parts[2], ":")
        n == ParseInt(Join(Tail(fields), ":"))
    IN  IF Len(parts) < 2 THEN None
        ELSE IF Len(fields) < 2 THEN None
        ELSE IF n = None THEN Some(<<fields[1], 1>>)
        ELSE Some(<<fields[1], n[1]>>)

\* parts = selected.split("\t") ... line_number = int(line_str):
\* None when ValueError is raised, else <<filepath, line_number>>
ParseSelection(sel) ==
    Only({ IF Len(parts) < 2 THEN None
           ELSE Only({ IF Len(fields) < 2 THEN None
                       ELSE Only({ IF n = None THEN None ELSE Some(<<fields[1], n[1]>>) :
                                   n \in {Only({ParseInt(line_str) :
                                                line_str \in {Join(Tail(fields), ":")}})} }) :
                       fields \in {Only({Split(file_line, ":") :
                                         file_line \in {parts[2]}})} }) :
           parts \in {Only({Split(s, TAB) : s \in {sel}})} })

\* what parse_diff leaves alone once it has returned, the blobs aside
parsed == <<lines, entries, hunks, current_file, hunk_block, hunk_start_line,
            hunk_header, hunk_id, block_src, header_src>>

Init ==
    /\ pc = "start"
    /\ lines = <<>>
    /\ entries = <<>>
    /\ hunks = <<>>
    /\ blobs = {}
    /\ current_file = None
    /\ hunk_block = <<>>
    /\ hunk_start_line = None
    /\ hunk_header = None
    /\ hunk_id = 0
    /\ block_src = <<>>
    /\ header_src = 0
    /\ selected = None
    /\ nav = <<>>
    /\ exit_code = None
    /\ released = FALSE
    /\ input_ok = None
    /\ fzf_found = None
    /\ report = None

\* the named input file cannot be opened: sys.exit(1)
ReadFail ==
    /\ pc = "start"
    /\ input_ok' = Some(FALSE)
    /\ Exit(1, Some("Error reading file"))
    /\ UNCHANGED <<parsed, selected, nav, fzf_found>>

\* the lines were read from the file or from standard input; parse_diff starts
ReadOk ==
    /\ pc = "start"
    /\ input_ok' = Some(TRUE)
    /\ pc' = "parsing"
    /\ UNCHANGED <<parserVars, selected, nav, exit_code, released, fzf_found, report>>

SetParser(st) ==
    /\ entries' = st.entries
    /\ hunks' = st.hunks
    /\ blobs' = st.blobs
    /\ current_file' = st.current_file
    /\ hunk_block' = st.hunk_block
    /\ hunk_start_line' = st.hunk_start_line
    /\ hunk_header' = st.hunk_header
    /\ hunk_id' = st.hunk_id
    /\ block_src' = st.block_src
    /\ header_src' = st.header_src

\* one iteration of the loop of parse_diff, on the next line of the input
ParseLine ==
    /\ pc = "parsing"
    /\ Len(lines) < MaxLines
    /\ \E raw \in RawLines :
         /\ lines' = Append(lines, raw)
         /\ SetParser(LoopBody(PState, raw, Len(lines) + 1))
    /\ UNCHANGED <<pc, selected, nav, exit_code, released, input_ok, fzf_found, report>>

\* parse_diff returns without the final flush
EndOfInput_NoFlush ==
    /\ pc = "parsing"
    /\ pc' = "parsed"
    /\ UNCHANGED <<parserVars, selected, nav, exit_code, released, input_ok, fzf_found,
                   report>>

\* the input is exhausted: the final flush_hunk(), return entries
EndOfInput ==
    /\ pc = "parsing"
    /\ SetParser(flush_hunk(PState))
    /\ pc' = "parsed"
    /\ UNCHANGED <<lines, selected, nav, exit_code, released, input_ok, fzf_found, report>>

\* if not entries: print("No diff hunk entries found."), sys.exit(0)
NoEntries ==
    /\ pc = "parsed"
    /\ entries = <<>>
    /\ Exit(0, Some("No diff hunk entries found."))
    /\ UNCHANGED <<parsed, selected, nav, input_ok, fzf_found>>

\* fuzzy_select: fzf is not installed, sys.exit(1)
SelectorMissing ==
    /\ pc = "parsed"
    /\ entries # <<>>
    /\ fzf_found' = Some(FALSE)
    /\ Exit(1, Some("Error: fzf is not installed or not in your PATH."))
    /\ UNCHANGED <<parsed, selected, nav, input_ok>>

\* fzf is started although there is no entry to choose from
StartSelector_NoEntries ==
    /\ pc = "parsed"
    /\ fzf_found' = Some(TRUE)
    /\ pc' = "selecting"
    /\ UNCHANGED <<parserVars, selected, nav, exit_code, released, input_ok, report>>

\* fuzzy_select: Popen started fzf, which now shows the entries and previews blobs
StartSelector ==
    /\ pc = "parsed"
    /\ entries # <<>>
    /\ fzf_found' = Some(TRUE)
    /\ pc' = "selecting"
    /\ UNCHANGED <<parserVars, selected, nav, exit_code, released, input_ok, report>>

\* fuzzy_select: fzf prints `out`; return selected.strip() if selected else None
Select ==
    /\ pc = "selecting"
    /\ \E out \in OtherSelections \cup {entries[i] \o <<NL>> : i \in 1..Len(entries)} :
         selected' = IF out # <<>> THEN Some(Strip(out)) ELSE None
    /\ pc' = "selected"
    /\ UNCHANGED <<parserVars, nav, exit_code, released, input_ok, fzf_found, report>>

\* an aborted selection ends with exit code 1
NoSelection_ExitsOne ==
    /\ pc = "selected"
    /\ ~Truthy(selected)
    /\ Exit(1, None)
    /\ UNCHANGED <<parsed, selected, nav, input_ok, fzf_found>>

\* if not selected: sys.exit(0)
NoSelection ==
    /\ pc = "selected"
    /\ ~Truthy(selected)
    /\ Exit(0, None)
    /\ UNCHANGED <<parsed, selected, nav, input_ok, fzf_found>>

\* except ValueError: print("Failed to parse the selected entry:", ...), sys.exit(1)
SelectionError ==
    /\ pc = "selected"
    /\ Truthy(selected)
    /\ ParseSelection(selected[1]) = None
    /\ Exit(1, Some("Failed to parse the selected entry:"))
    /\ UNCHANGED <<parsed, selected, nav, input_ok, fzf_found>>

\* open_in_editor(filepath, line_number) is called
Navigate ==
    /\ pc = "selected"
    /\ Truthy(selected)
    /\ ParseSelection(selected[1]) # None
    /\ nav' = Append(nav, ParseSelection(selected[1])[1])
    /\ pc' = "navigate"
    /\ UNCHANGED <<parserVars, selected, exit_code, released, input_ok, fzf_found, report>>

\* the editor returned; main returns
Return ==
    /\ pc = "navigate"
    /\ Exit(0, None)
    /\ UNCHANGED <<parsed, selected, nav, input_ok, fzf_found>>

Next ==
    \/ ReadFail
    \/ ReadOk
    \/ ParseLine
    \/ EndOfInput
    \/ NoEntries
    \/ SelectorMissing
    \/ StartSelector
    \/ Select
    \/ NoSelection
    \/ SelectionError
    \/ Navigate
    \/ Return

Spec == Init /\ [][Next]_vars

\* main is sequential: it takes its next step as long as it has one, and the
\* Selector and the editor it waits for return
FairSpec == Spec /\ WF_vars(Next)

(***************************************************************************)
(* What the claims speak about, read off the input itself                  *)
(***************************************************************************)
HunkHeaderInputs == {LHunk, LHunkZero}

FileHeaderInputs == {LGit, LGitBare, LGitTab, LIndex}

\* the path a file-header line names (a/ or b/ removed for a +++ header)
NamedPath(raw) ==
    CASE raw = LGit -> <<"x">>
      [] raw = LGitBare -> <<>>
      [] raw = LGitTab -> <<"q", ":", "7", TAB, "z">>
      [] raw = LIndex -> <<"y">>

\* the new-file start number a hunk-header line writes after '+'
NewStart(raw) ==
    CASE raw = LHunk -> 3
      [] raw = LHunkZero -> 0

\* the input line without its line terminator
Text(p) ==
    IF lines[p][Len(lines[p])] = NL THEN SubSeq(lines[p], 1, Len(lines[p]) - 1)
    ELSE lines[p]

IsHunkHeaderLine(p) == lines[p] \in HunkHeaderInputs

IsFileHeaderLine(p) == lines[p] \in FileHeaderInputs

IsBoundary(p) == IsHunkHeaderLine(p) \/ IsFileHeaderLine(p)

Max(S) == CHOOSE x \in S : \A y \in S : y <= x

Min(S) == CHOOSE x \in S : \A y \in S : x <= y

\* index of the most recent file-header line before line p, 0 when there is none
LastFileHeader(p) ==
    LET js == {j \in 1..(p - 1) : IsFileHeaderLine(j)}
    IN  IF js = {} THEN 0 ELSE Max(js)

\* a current file is set when line p is read: the last file header names a path
FileSetAt(p) == LastFileHeader(p) # 0 /\ NamedPath(lines[LastFileHeader(p)]) # <<>>

\* index of the first boundary after line p, Len(lines)+1 at the end of the input
NextBoundary(p) ==
    LET qs == {q \in (p + 1)..Len(lines) : IsBoundary(q)}
    IN  IF qs = {} THEN Len(lines) + 1 ELSE Min(qs)

\* the indices p .. q as a sequence
Range(p, q) == [k \in 1..(q - p + 1) |-> p + k - 1]

Elems(s) == {s[k] : k \in 1..Len(s)}

\* the content of the blob a hunk refers to
BlobOf(h) == (CHOOSE b \in blobs : b[1] = h.content_ref)[2]

HasBlob(h) == \E b \in blobs : b[1] = h.content_ref

\* The input alphabet is classified as the code classifies it.
InputsClassified ==
    \A raw \in RawLines :
        /\ IsFileHeader(RStripNL(raw)) <=> raw \in FileHeaderInputs
        /\ (~IsFileHeader(RStripNL(raw)) /\ pattern_hunk(RStripNL(raw)) # None)
              <=> raw \in HunkHeaderInputs

(***************************************************************************)
(* C1                                                                      *)
(***************************************************************************)
\* C1: after every processed line the hunks emitted so far carry the ids
\* 0, 1, ..., k-1 in emission order, in the hunk and in the first field of its
\* rendered entry, and the next id to assign is k.
C1_DenseIds ==
    /\ Len(entries) = Len(hunks)
    /\ hunk_id = Len(hunks)
    /\ \A i \in 1..Len(hunks) :
          /\ hunks[i].id = i - 1
          /\ Split(entries[i], TAB)[1] = IntToStr(i - 1)

C1_Witness == Len(hunks) = 3 /\ hunks[3].id = 2 /\ hunk_id = 3

(***************************************************************************)
(* C2                                                                      *)
(***************************************************************************)
\* the lines that accumulate under the hunk header at p: p up to the next boundary
Segment(p) == p..(NextBoundary(p) - 1)

\* C2: a hunk header read while no current file is set is discarded: neither
\* that line nor the lines accumulated after it are in the body of any emitted
\* hunk, and no hunk is emitted for it.
C2_OrphanDiscarded ==
    \A p \in 1..Len(lines) :
        (IsHunkHeaderLine(p) /\ ~FileSetAt(p)) =>
            \A i \in 1..Len(hunks) :
                /\ hunks[i].header_src # p
                /\ Elems(hunks[i].src) \cap Segment(p) = {}

(***************************************************************************)
(* C3                                                                      *)
(***************************************************************************)
\* C3: the file_path of every emitted hunk is the path named by the most recent
\* file-header line that precedes the hunk's header line.
C3_FileOfPrecedingHeader ==
    \A i \in 1..Len(hunks) :
        LET p == hunks[i].header_src
        IN  /\ LastFileHeader(p) # 0
            /\ hunks[i].file_path = NamedPath(lines[LastFileHeader(p)])

(***************************************************************************)
(* C4                                                                      *)
(***************************************************************************)
\* C4: the lines of every emitted hunk's blob are the input lines from the
\* hunk's own header line up to just before the next boundary, in order.
C4_BlobIsSlice ==
    ~released =>
        \A i \in 1..Len(hunks) :
            LET p == hunks[i].header_src
            IN  /\ HasBlob(hunks[i])
                /\ Split(BlobOf(hunks[i]), NL)
                     = [k \in 1..(NextBoundary(p) - p) |-> Text(p + k - 1)]

(***************************************************************************)
(* C5                                                                      *)
(***************************************************************************)
\* hunk-header lines preceded by a file-header line and followed by at least
\* one line before the next boundary
FollowedHeaders ==
    {p \in 1..Len(lines) :
        IsHunkHeaderLine(p) /\ LastFileHeader(p) # 0 /\ NextBoundary(p) > p + 1}

\* hunk-header lines read while a current file is set
HeadersUnderFile == {p \in 1..Len(lines) : IsHunkHeaderLine(p) /\ FileSetAt(p)}

\* every hunk header of the input is read while a current file is set
AllHeadersUnderFile == \A p \in 1..Len(lines) : IsHunkHeaderLine(p) => FileSetAt(p)

\* C5 as stated: the number of hunks emitted equals the number of hunk-header
\* lines preceded by a file-header line and followed by at least one line
\* before the next boundary. It is stated here for the inputs in which every
\* hunk header is read under a current file, where C2 and C3 hold.
C5_CountsFollowedHeaders ==
    (pc = "parsed" /\ AllHeadersUnderFile) => Len(hunks) = Cardinality(FollowedHeaders)

\* file-header lines naming a path that are read while a hunk opened without a
\* current file is still in the buffer
AdoptingHeaders ==
    {j \in 1..Len(lines) :
        /\ IsFileHeaderLine(j)
        /\ NamedPath(lines[j]) # <<>>
        /\ \E p \in 1..(j - 1) :
              IsHunkHeaderLine(p) /\ \A q \in p..j : ~FileSetAt(q)}

\* C5 amended: the number of hunks emitted equals the number of hunk-header
\* lines read while a current file is set, whether or not a line follows them,
\* plus one for each buffer opened without a current file that a later file
\* header naming a path takes over.
C5_CountsHeadersUnderFile ==
    pc = "parsed" =>
        Len(hunks) = Cardinality(HeadersUnderFile) + Cardinality(AdoptingHeaders)

\* a header under a file with no line after it, a header under a file with a
\* line after it, all emitted
C5_Witness ==
    /\ pc = "parsed"
    /\ Len(hunks) = 2
    /\ Cardinality(HeadersUnderFile) = 2
    /\ Cardinality(FollowedHeaders) = 1

(***************************************************************************)
(* C6                                                                      *)
(***************************************************************************)
\* hunk i was opened by the header at line p and holds that line alone
OneLineHunk(i, p) ==
    /\ hunks[i].header_src = p
    /\ hunks[i].src = <<p>>
    /\ hunks[i].header_text = Text(p)
    /\ DigitsToInt(hunks[i].start_line) = NewStart(lines[p])
    /\ ~released => (HasBlob(hunks[i]) /\ Split(BlobOf(hunks[i]), NL) = <<Text(p)>>)

\* hunk headers at lines p and p+1, the first read under a current file
ConsecutiveHeaders(p) ==
    /\ p + 1 <= Len(lines)
    /\ IsHunkHeaderLine(p)
    /\ IsHunkHeaderLine(p + 1)
    /\ FileSetAt(p)

\* C6: two consecutive hunk headers under a current file yield two hunks. The
\* first is emitted when the second is read, with a one-line body holding its
\* own header; the second is emitted next, at the following boundary, with its
\* own header_text and start_line, and with a one-line body holding its own
\* header when no other line comes before that boundary.
C6_ConsecutiveHeaders ==
    \A p \in 1..Len(lines) :
        ConsecutiveHeaders(p) =>
            \E i \in 1..Len(hunks) :
                /\ OneLineHunk(i, p)
                /\ (pc # "parsing" \/ NextBoundary(p + 1) <= Len(lines)) =>
                      /\ i + 1 <= Len(hunks)
                      /\ hunks[i + 1].header_src = p + 1
                      /\ hunks[i + 1].header_text = Text(p + 1)
                      /\ DigitsToInt(hunks[i + 1].start_line) = NewStart(lines[p + 1])
                      /\ hunks[i + 1].src = Range(p + 1, NextBoundary(p + 1) - 1)
                      /\ NextBoundary(p + 1) = p + 2 => OneLineHunk(i + 1, p + 1)

C6_Witness ==
    /\ pc = "parsed"
    /\ \E p \in 1..Len(lines) :
          /\ ConsecutiveHeaders(p)
          /\ lines[p] # lines[p + 1]
          /\ p + 1 = Len(lines)
          /\ Len(hunks) = 2
          /\ OneLineHunk(1, p)
          /\ OneLineHunk(2, p + 1)

(***************************************************************************)
(* C7                                                                      *)
(***************************************************************************)
NoHunkHeaderLine == \A p \in 1..Len(lines) : ~IsHunkHeaderLine(p)

\* C7: while no line of the input is a hunk-header line, no hunk is emitted and
\* no blob is written, whatever file headers and other lines were read.
C7_NoHeaderNoHunk ==
    NoHunkHeaderLine =>
        /\ entries = <<>>
        /\ hunks = <<>>
        /\ blobs = {}
        /\ hunk_id = 0
        /\ hunk_block = <<>>
        /\ nav = <<>>

C7_Witness ==
    /\ pc = "parsed"
    /\ NoHunkHeaderLine
    /\ \E p, q, r \in 1..Len(lines) :
          /\ IsFileHeaderLine(p)
          /\ p < q
          /\ lines[q] = LBad
          /\ lines[r] = LCtx
    /\ entries = <<>>

(***************************************************************************)
(* C8                                                                      *)
(***************************************************************************)
\* C8 as stated: the start_line of every emitted hunk is a positive integer.
C8_StartPositive ==
    \A i \in 1..Len(hunks) : DigitsToInt(hunks[i].start_line) >= 1

\* C8 amended: the start_line of every emitted hunk is a non-empty string of
\* decimal digits whose value is the number written after '+' in the hunk's
\* header line: a non-negative integer, 0 for a header that writes +0.
C8_StartIsWrittenNumber ==
    \A i \in 1..Len(hunks) :
        /\ IsHunkHeaderLine(hunks[i].header_src)
        /\ hunks[i].start_line # <<>>
        /\ \A k \in 1..Len(hunks[i].start_line) : IsDigit(hunks[i].start_line[k])
        /\ DigitsToInt(hunks[i].start_line) = NewStart(lines[hunks[i].header_src])
        /\ DigitsToInt(hunks[i].start_line) >= 0

C8_Witness ==
    \E i, j \in 1..Len(hunks) :
        /\ lines[hunks[i].header_src] = LHunkZero
        /\ DigitsToInt(hunks[i].start_line) = 0
        /\ DigitsToInt(hunks[j].start_line) = 3

(***************************************************************************)
(* C9                                                                      *)
(***************************************************************************)
\* C9: every rendered selection line splits on the tab character into exactly
\* four fields: id, file_path:start_line, header_text, blob reference.
C9_FourFields ==
    \A i \in 1..Len(entries) :
        LET f == Split(entries[i], TAB)
        IN  /\ Len(f) = 4
            /\ f[1] = IntToStr(hunks[i].id)
            /\ f[2] = hunks[i].file_path \o <<":">> \o hunks[i].start_line
            /\ f[3] = hunks[i].header_text
            /\ f[4] = hunks[i].content_ref

(***************************************************************************)
(* C10                                                                     *)
(***************************************************************************)
\* C10: when the Selector returned the rendered line of hunk i and the
\* Navigator is invoked, it is invoked with the file_path and the start_line
\* of hunk i as captured at flush time.
C10_NavigatorGetsHunk ==
    \A i \in 1..Len(entries) :
        (nav # <<>> /\ selected = Some(entries[i])) =>
            nav = << <<hunks[i].file_path, DigitsToInt(hunks[i].start_line)>> >>

(***************************************************************************)
(* C11                                                                     *)
(***************************************************************************)
ParseFailureMsg == Some("Failed to parse the selected entry:")

\* the tab-delimited fields of a selection line
TabFields(sel) == Split(sel, TAB)

\* the text after the first ':' of f (f contains one)
AfterColon(f) == From(f, SkipWhile(f, 1, Elems(f) \ {":"}) + 1)

\* the line has a second field of the form path:integer
SecondIsPathInt(sel) ==
    /\ Len(TabFields(sel)) >= 2
    /\ ":" \in Elems(TabFields(sel)[2])
    /\ ParseInt(AfterColon(TabFields(sel)[2])) # None

\* the run ended as a selection parse error: reported, non-zero, no Navigator
EndedAsParseError ==
    /\ nav = <<>>
    /\ pc = "exit"
    /\ exit_code # None
    /\ exit_code[1] # 0
    /\ report = ParseFailureMsg

\* main has decided what to do with the line the Selector returned
SelectionDecided == pc \in {"navigate", "exit"} /\ Truthy(selected)

\* C11 as stated: every line the Selector returns that does not have four
\* tab-delimited fields is reported as a selection parse error and the process
\* ends with a non-zero exit code.
C11_NotFourFieldsRejected ==
    (SelectionDecided /\ Len(TabFields(selected[1])) # 4) => EndedAsParseError

\* C11 amended: a line the Selector returns is reported as a selection parse
\* error, with a non-zero exit code, exactly when it has fewer than two
\* tab-delimited fields or its second field is not path:integer; a line with
\* two, three, five or more fields whose second field is path:integer is
\* accepted and the Navigator is invoked once.
C11_FewerThanTwoFieldsRejected ==
    SelectionDecided =>
        IF SecondIsPathInt(selected[1])
        THEN Len(nav) = 1 /\ report = None /\ (pc = "exit" => exit_code = Some(0))
        ELSE EndedAsParseError

C11_Witness ==
    /\ pc = "exit"
    /\ Truthy(selected)
    /\ Len(TabFields(selected[1])) = 2
    /\ Len(nav) = 1
    /\ exit_code = Some(0)

(***************************************************************************)
(* C12                                                                     *)
(***************************************************************************)
\* C12: when the second tab-delimited field of the selection line is not of
\* the form path:integer, the Navigator is never invoked in that run, and the
\* run ends with a reported parse failure and a non-zero exit code.
C12_BadSecondFieldRejected ==
    (/\ Truthy(selected)
     /\ Len(TabFields(selected[1])) >= 2
     /\ ~SecondIsPathInt(selected[1])) =>
        /\ nav = <<>>
        /\ pc \in {"selected", "exit"}
        /\ pc = "exit" => (exit_code = Some(1) /\ report = ParseFailureMsg)

\* both ways of not being path:integer have ended a run
C12_Witness ==
    /\ pc = "exit"
    /\ Truthy(selected)
    /\ Len(TabFields(selected[1])) >= 2
    /\ ":" \in Elems(TabFields(selected[1])[2])
    /\ ~SecondIsPathInt(selected[1])
    /\ exit_code = Some(1)

(***************************************************************************)
(* C13                                                                     *)
(***************************************************************************)
\* the six outcomes, in the order: no hunk extracted, selection aborted,
\* Navigator run, input unreadable, Selector unavailable, selection unparsable
Outcomes ==
    << input_ok = Some(TRUE) /\ entries = <<>>,
       fzf_found = Some(TRUE) /\ ~Truthy(selected),
       nav # <<>>,
       input_ok = Some(FALSE),
       fzf_found = Some(FALSE),
       Truthy(selected) /\ ~SecondIsPathInt(selected[1]) >>

AllBlobsPresent == \A i \in 1..Len(hunks) : HasBlob(hunks[i])

\* C14: on every exit path the process eventually terminates with all blobs
\* of the invocation released; they are released only when main ends, so every
\* blob is present while the Selector and the Navigator run.
C14_ScopedCleanup ==
    /\ [](released => pc = "exit")
    /\ [](pc \in {"parsed", "selecting", "selected", "navigate"} => AllBlobsPresent)
    /\ <>(pc = "exit" /\ released /\ blobs = {})

C14_Witness ==
    /\ pc = "exit"
    /\ released
    /\ blobs = {}
    /\ Len(hunks) >= 2
    /\ nav # <<>>

(***************************************************************************)
(* C15                                                                     *)
(***************************************************************************)
\* positions of the buffer that hold a hunk-header line
HeadersInBuffer == {k \in 1..Len(block_src) : IsHunkHeaderLine(block_src[k])}

\* C15: the body buffer holds at most one hunk-header line, and right after a
\* hunk-header line is processed the buffer is exactly that one line, whether
\* or not a current file is set.
C15_OneOpenHunk ==
    /\ Cardinality(HeadersInBuffer) <= 1
    /\ (pc = "parsing" /\ lines # <<>> /\ IsHunkHeaderLine(Len(lines))) =>
          hunk_block = <<Text(Len(lines))>>

(***************************************************************************)
(* C16                                                                     *)
(***************************************************************************)
\* the emitted hunks whose body holds input line p
HunksHolding(p) == {i \in 1..Len(hunks) : p \in Elems(hunks[i].src)}

\* the hunk opened at line p has met its boundary: a later header line, or the
\* final flush at the end of the input
BoundaryReached(p) == NextBoundary(p) <= Len(lines) \/ pc \notin {"start", "parsing"}

\* C16: a hunk opened by a header read under a current file is emitted exactly
\* once: not before its boundary, and from the next hunk header, file header or
\* final flush on, its header line is in the body of exactly one emitted hunk,
\* the one opened by it.
C16_EmittedOnce ==
    \A p \in 1..Len(lines) :
        (IsHunkHeaderLine(p) /\ FileSetAt(p)) =>
            IF BoundaryReached(p)
            THEN /\ Cardinality(HunksHolding(p)) = 1
                 /\ \A i \in HunksHolding(p) :
                       /\ hunks[i].header_src = p
                       /\ hunks[i].src = Range(p, NextBoundary(p) - 1)
            ELSE /\ HunksHolding(p) = {}
                 /\ header_src = p
                 /\ p \in Elems(block_src)

\* two hunks under a current file, one flushed by a file header, one by the final flush
C16_Witness ==
    /\ pc = "parsed"
    /\ Len(hunks) = 2
    /\ Len(lines) >= 4
    /\ IsFileHeaderLine(NextBoundary(hunks[1].header_src))
    /\ NextBoundary(hunks[2].header_src) = Len(lines) + 1
    /\ \A i \in 1..2 : FileSetAt(hunks[i].header_src)

(***************************************************************************)
(* C17                                                                     *)
(***************************************************************************)
\* the condition of a flush fails in the current state
FlushFails ==
    \/ hunk_block = <<>>
    \/ ~Truthy(current_file)
    \/ hunk_start_line = None
    \/ ~Truthy(hunk_header)

\* one hunk was emitted by this step: the next id was used and one blob added
EmittedOne ==
    /\ Len(entries') = Len(entries) + 1
    /\ Len(hunks') = Len(hunks) + 1
    /\ hunks'[Len(hunks')].id = hunk_id
    /\ hunk_id' = hunk_id + 1
    /\ Cardinality(blobs') = Cardinality(blobs) + 1

\* the frame of the flush attempted by this step of parse_diff: at the end of
\* the input, at a file header, at a hunk header
FrameOfFlush ==
    LET last == lines'[Len(lines')]
        text == IF last[Len(last)] = NL THEN SubSeq(last, 1, Len(last) - 1) ELSE last
    IN  IF pc' = "parsed"
        THEN IF FlushFails
             THEN UNCHANGED <<entries, hunks, blobs, hunk_id, hunk_block, block_src,
                              hunk_header, hunk_start_line, current_file>>
             ELSE /\ EmittedOne
                  /\ hunk_block' = <<>>
                  /\ hunk_header' = None
                  /\ hunk_start_line' = None
                  /\ current_file' = current_file
        ELSE IF last \in FileHeaderInputs
        THEN IF FlushFails
             THEN UNCHANGED <<entries, hunks, blobs, hunk_id, hunk_block, block_src,
                              hunk_header, hunk_start_line>>
             ELSE /\ EmittedOne
                  /\ hunk_block' = <<>>
                  /\ hunk_header' = None
                  /\ hunk_start_line' = None
        ELSE IF last \in HunkHeaderInputs
        THEN IF FlushFails
             THEN /\ UNCHANGED <<entries, hunks, blobs, hunk_id, current_file>>
                  /\ hunk_block' = Append(hunk_block, text)
             ELSE /\ EmittedOne
                  /\ hunk_block' = <<text>>
                  /\ current_file' = current_file
        ELSE UNCHANGED <<entries, hunks, blobs, hunk_id, current_file, hunk_header,
                         hunk_start_line>>

\* C17: a flush attempt whose condition fails changes nothing: emitted list,
\* blobs, next id, buffer and pending fields stay as they were; a successful
\* flush emits one hunk, clears the buffer and the pending header and start
\* line, and leaves current_file unchanged.
C17_FrameOfFlush == [][pc = "parsing" => FrameOfFlush]_vars

\* a flush has succeeded at a hunk header and the next hunk is open under the
\* same file; a failed attempt left an earlier buffer as it was
C17_Witness ==
    /\ pc = "parsing"
    /\ Len(hunks) = 1
    /\ hunk_block # <<>>
    /\ Truthy(current_file)
    /\ hunks[1].file_path = current_file[1]
    /\ Len(hunks[1].src) = 2
    /\ ~FileSetAt(hunks[1].src[1])

(***************************************************************************)
(* C18                                                                     *)
(***************************************************************************)
IsPrefix(a, b) == Len(a) <= Len(b) /\ SubSeq(b, 1, Len(a)) = a

\* C18: until the blobs are released at the end of the run, no step changes or
\* removes an emitted hunk, its entry or a written blob, so the list after a
\* prefix of the input is a prefix of the later list; and there is one blob
\* per emitted hunk, the one the hunk refers to.
C18_AppendOnly ==
    [][~released' =>
          /\ IsPrefix(hunks, hunks')
          /\ IsPrefix(entries, entries')
          /\ blobs \subseteq blobs'
          /\ Cardinality(blobs') = Len(hunks')
          /\ \A i \in 1..Len(hunks') :
                \E b \in blobs' : b[1] = hunks'[i].content_ref]_vars

C18_Witness ==
    /\ pc = "parsing"
    /\ Len(hunks) = 2
    /\ Cardinality(blobs) = 2
    /\ hunk_block # <<>>

(***************************************************************************)
(* C19                                                                     *)
(***************************************************************************)
\* the path as a file-header line writes it
HeaderPath(raw) ==
    CASE raw = LGit -> <<"b", "/", "x">>
      [] raw = LGitBare -> <<"a", "/">>
      [] raw = LGitTab -> <<"q", ":", "7", TAB, "z">>
      [] raw = LIndex -> <<"y">>

\* C19: after a file-header line current_file is the path the header names
\* (one leading a/ or b/ removed for a +++ header, the path unchanged for an
\* Index: header), and a header that writes a non-empty path leaves a current
\* file set, under which hunks can be flushed.
C19_FileHeaderSetsFile ==
    (pc = "parsing" /\ lines # <<>> /\ IsFileHeaderLine(Len(lines))) =>
        /\ current_file = Some(NamedPath(lines[Len(lines)]))
        /\ HeaderPath(lines[Len(lines)]) # <<>> => Truthy(current_file)

(***************************************************************************)
(* C20                                                                     *)
(***************************************************************************)
\* C20: the Selector is started at most once, after parsing has completed and
\* only with at least one hunk emitted; the parse result does not change
\* afterwards; the Navigator is started at most once, only after the Selector
\* returned a non-empty line that parses, and before any exit decision.
C20_PipelineOrder ==
    [][/\ fzf_found' # fzf_found =>
             /\ fzf_found = None
             /\ pc = "parsed"
             /\ input_ok = Some(TRUE)
             /\ nav = <<>>
       /\ pc' = "selecting" =>
             /\ pc = "parsed"
             /\ fzf_found = None
             /\ entries # <<>>
       /\ pc \notin {"start", "parsing"} => UNCHANGED parsed
       /\ nav' # nav =>
             /\ nav = <<>>
             /\ Len(nav') = 1
             /\ fzf_found = Some(TRUE)
             /\ Truthy(selected)
             /\ SecondIsPathInt(selected[1])
             /\ exit_code = None
             /\ exit_code' = None]_vars

C20_Witness ==
    /\ pc = "exit"
    /\ Len(nav) = 1
    /\ fzf_found = Some(TRUE)
    /\ exit_code = Some(0)
    /\ Len(entries) >= 2

====
